---- MODULE Spec2Model ----
(***************************************************************************)
(* Offset (buffer) of 2D shapes, after src/src/offset.rs.                  *)
(*                                                                         *)
(* Every offset_with_arc_segments implementation is a pure function; one   *)
(* action per implementation applies it to an input drawn in Init.         *)
(*                                                                         *)
(* Numbers.  Coordinates and distances are exact integers on a lattice     *)
(* (floating-point rounding is not modelled); a distance keeps its sign    *)
(* bit apart from its magnitude, so that -0.0 exists.  Angles are exact    *)
(* rationals num/den counted in eighths of a turn (Pi == 4).  A generated  *)
(* vertex center + radius * (cos a, sin a) is kept in polar form.  u32     *)
(* values keep their 32 bits, as two 16-bit limbs.                         *)
(***************************************************************************)
EXTENDS Integers, Sequences, FiniteSets, TLC

\* call:     the operation called and its arguments
\* build:    whether the build checks integer overflow ("checked": an
\*           overflow panics) or not ("wrapping": the value wraps around)
\* arc_vertices: the vertex list create_arc appends to
\* result:   what the call returned; None until it has
VARIABLES call, build, arc_vertices, result

vars == <<call, build, arc_vertices, result>>

(* ------------------------------ bounds -------------------------------- *)

\* Lattice coordinates of the drawn points and segments lie in 0..MaxCoord.
MaxCoord == 2

\* Distance magnitudes lie in 0..MaxDist.
MaxDist == 1

\* Small arc_segments values lie in 0..MaxArc.
MaxArc == 3

\* Longest vertex list the model enumerates; a longer one is kept as its
\* length only (status "Huge").
VertexCap == 2 * (MaxArc + 2) + 2

(* ------------------------------- u32 ---------------------------------- *)

LimbBase == 2 ^ 16

\* A u32 is <<high limb, low limb>>.
U32(n) == <<n \div LimbBase, n % LimbBase>>

U32Max == <<LimbBase - 1, LimbBase - 1>>

\* 2^31 - 1 and 2^31
U32HalfMinus1 == <<(LimbBase \div 2) - 1, LimbBase - 1>>

U32Half == <<LimbBase \div 2, 0>>

U32Leq(a, b) == a[1] < b[1] \/ (a[1] = b[1] /\ a[2] <= b[2])

\* The value as a model integer, for values below 2^31.
U32ToNat(a) == a[1] * LimbBase + a[2]

U32IsEven(a) == a[2] % 2 = 0

\* a * 2, a + 1, a - 1 on u32: the wrapped value and whether the exact
\* result left 0 .. 2^32 - 1.
U32Mul2(a) ==
    LET lo == a[2] * 2
        hi == a[1] * 2 + (lo \div LimbBase)
    IN  [val |-> <<hi % LimbBase, lo % LimbBase>>, ovf |-> hi >= LimbBase]

U32Add1(a) ==
    LET lo == a[2] + 1
        hi == a[1] + (lo \div LimbBase)
    IN  [val |-> <<hi % LimbBase, lo % LimbBase>>, ovf |-> hi >= LimbBase]

U32Sub1(a) ==
    IF a[2] > 0 THEN [val |-> <<a[1], a[2] - 1>>, ovf |-> FALSE]
    ELSE IF a[1] > 0 THEN [val |-> <<a[1] - 1, LimbBase - 1>>, ovf |-> FALSE]
    ELSE [val |-> U32Max, ovf |-> TRUE]

\* Whether a vertex list of this many elements is enumerated by the model.
Enumerable(a) == U32Leq(a, U32(VertexCap))

(* ---------------------------- distances ------------------------------- *)

\* A float distance: sign bit and magnitude.
Dist(neg, mag) == [neg |-> neg, mag |-> mag]

\* distance < F::zero()
IsNegative(d) == d.neg /\ d.mag > 0

\* distance.is_sign_positive()
IsSignPositive(d) == ~d.neg

\* A distance handed on with its sign: abs() forgotten.
AbsKeepSign(d) == d

\* distance.abs()
Abs(d) == [neg |-> FALSE, mag |-> d.mag]

(* --------------------------- coordinates ------------------------------ *)

\* pi, in eighths of a turn
Pi == 4

Pi2 == Pi * 2

\* The coordinate (x, y) + r * (cos a, sin a), a = num/den eighths of a turn.
\* r = 0 gives (x, y) itself whatever the angle.
Polar(x, y, r, num, den) ==
    IF r = 0 THEN [x |-> x, y |-> y, r |-> 0, num |-> 0, den |-> 1]
    ELSE [x |-> x, y |-> y, r |-> r, num |-> num, den |-> den]

\* A lattice coordinate.
Coord(x, y) == Polar(x, y, 0, 0, 1)

IsLattice(v) == v.r = 0

Sgn(n) == IF n > 0 THEN 1 ELSE IF n < 0 THEN -1 ELSE 0

AbsInt(n) == IF n < 0 THEN -n ELSE n

\* y.atan2(x) in eighths of a turn, for the directions that are multiples
\* of an eighth of a turn; atan2(0, 0) = 0.  The result lies in -Pi+1 .. Pi.
Atan2(y, x) ==
    CASE y = 0 /\ x >= 0 -> 0
      [] y = 0 /\ x < 0 -> Pi
      [] x = 0 -> 2 * Sgn(y)
      [] x = y -> IF x > 0 THEN 1 ELSE -3
      [] x = -y -> IF y > 0 THEN 3 ELSE -1

\* if angle.is_sign_negative() { angle + pi2 } else { angle }
NormalizeAngle(a) == IF a < 0 THEN a + Pi2 ELSE a

(* ------------------------ results of a call --------------------------- *)

\* Ok(MultiPolygon): polys is the polygon list.  wrapped tells that a u32
\* operation wrapped around on the way (a build without overflow checks).
Ok(polys) == [status |-> "Ok", polys |-> polys, wrapped |-> FALSE, count |-> U32(0)]

\* Err(OffsetError::EdgeError(_))
Err == [status |-> "Err", polys |-> <<>>, wrapped |-> FALSE, count |-> U32(0)]

\* A u32 overflow in a build with overflow checks.
Panic == [status |-> "Panic", polys |-> <<>>, wrapped |-> FALSE, count |-> U32(0)]

\* A vertex list of `count` generated vertices, too long to enumerate.
Huge(count, wrapped) ==
    [status |-> "Huge", polys |-> <<>>, wrapped |-> wrapped, count |-> count]

None == [status |-> "None", polys |-> <<>>, wrapped |-> FALSE, count |-> U32(0)]

(* ------------------------------ shapes -------------------------------- *)

\* A geometry: its variant, its own coordinates, its member geometries.
\*   Point: pts = <<p>>            Line: pts = <<start, end>>
\*   LineString, MultiPoint: pts   Rect: pts = <<min, max>>
\*   Polygon: parts = <<exterior, interior, ...>> (LineStrings)
\*   MultiLineString, MultiPolygon, GeometryCollection: parts
Geom(kind, pts, parts) == [kind |-> kind, pts |-> pts, parts |-> parts]

\* geo_types::Polygon built from rings, or returned by the boolean engine.
\* A polygon of the engine is kept as the set of unit cells it covers.
RingPolygon(exterior, interiors) ==
    [kind |-> "ring", exterior |-> exterior, interiors |-> interiors, cells |-> {}]

RegionPolygon(cells) ==
    [kind |-> "region", exterior |-> <<>>, interiors |-> <<>>, cells |-> cells]

\* LineString::close: a ring that is not closed gets its first coordinate
\* appended.
CloseRing(ring) ==
    IF ring = <<>> \/ ring[1] = ring[Len(ring)] THEN ring
    ELSE Append(ring, ring[1])

RECURSIVE CloseRings(_)
CloseRings(rings) ==
    IF rings = <<>> THEN <<>>
    ELSE <<CloseRing(Head(rings))>> \o CloseRings(Tail(rings))

\* geo_types::Polygon::new(exterior, interiors)
PolygonNew(exterior, interiors) ==
    RingPolygon(CloseRing(exterior), CloseRings(interiors))

(* ------------------------------- edges -------------------------------- *)

\* Edge::new(current, next)
EdgeNew(current, next) == [current |-> current, next |-> next]

\* Edge::inwards_normal: the unit normal, direction rotated by +90 degrees;
\* fails on a zero-length edge.  Edges are axis-parallel here, so the unit
\* normal is a lattice vector.
InwardsNormal(e) ==
    LET dx == e.next.x - e.current.x
        dy == e.next.y - e.current.y
    IN  IF dx = 0 /\ dy = 0 THEN [ok |-> FALSE, x |-> 0, y |-> 0]
        ELSE [ok |-> TRUE, x |-> -Sgn(dy), y |-> Sgn(dx)]

\* Edge::outwards_normal: the opposite of the inwards normal.
OutwardsNormal(e) ==
    LET n == InwardsNormal(e)
    IN  [ok |-> n.ok, x |-> -n.x, y |-> -n.y]

\* Edge::with_offset(dx, dy)
WithOffset(e, dx, dy) ==
    [current |-> Coord(e.current.x + dx, e.current.y + dy),
     next |-> Coord(e.next.x + dx, e.next.y + dy)]

\* Edge::inverse_with_offset(dx, dy)
InverseWithOffset(e, dx, dy) ==
    [current |-> Coord(e.next.x + dx, e.next.y + dy),
     next |-> Coord(e.current.x + dx, e.current.y + dy)]

(* ---------------------------- arc builder ----------------------------- *)

\* The outcome of create_arc: the vertex list after the call.
ArcOk(vertices, wrapped) ==
    [status |-> "Ok", vertices |-> vertices, wrapped |-> wrapped, count |-> U32(0)]

ArcPanic ==
    [status |-> "Panic", vertices |-> <<>>, wrapped |-> FALSE, count |-> U32(0)]

ArcHuge(count, wrapped) ==
    [status |-> "Huge", vertices |-> <<>>, wrapped |-> wrapped, count |-> count]

\* start_angle, end_angle: atan2 of the vertex about the center, then
\* moved into [0, 2 pi).
ArcVertexAngle(center, v) ==
    NormalizeAngle(Atan2(v.y - center.y, v.x - center.x))

\* A segment count with the parity test inverted: an odd count is
\* decremented.
ArcSegmentCountOdd(segment_count) ==
    IF ~U32IsEven(segment_count) THEN U32Sub1(segment_count)
    ELSE [val |-> segment_count, ovf |-> FALSE]

\* segment_count made odd: an even count is decremented.
ArcSegmentCount(segment_count) ==
    IF U32IsEven(segment_count) THEN U32Sub1(segment_count)
    ELSE [val |-> segment_count, ovf |-> FALSE]

\* angle
ArcAngle(start_angle, end_angle) ==
    IF start_angle > end_angle THEN start_angle - end_angle
    ELSE start_angle + Pi2 - end_angle

\* The two sweeps exchanged: the long way when outwards.
ArcSweepSwapped(angle, outwards) == IF outwards THEN Pi2 - angle ELSE -angle

\* if outwards { -angle } else { pi2 - angle }: segment_angle is this,
\* divided by the segment count.
ArcSweep(angle, outwards) == IF outwards THEN -angle ELSE Pi2 - angle

\* An interpolation that starts at the start angle itself: i - 1 steps.
ArcVertexOffByOne(center, radius, start_angle, sweep, n, i) ==
    Polar(center.x, center.y, radius, start_angle * n + sweep * (i - 1), n)

\* The i-th interpolated vertex, at angle start_angle + segment_angle * i.
ArcVertex(center, radius, start_angle, sweep, n, i) ==
    Polar(center.x, center.y, radius, start_angle * n + sweep * i, n)

\* EnrichedFloat::create_arc
CreateArc(vertices, center, radius, start_vertex, end_vertex, segment_count, outwards, bld) ==
    LET start_angle == ArcVertexAngle(center, start_vertex)
        end_angle == ArcVertexAngle(center, end_vertex)
        cnt == ArcSegmentCount(segment_count)
        angle == ArcAngle(start_angle, end_angle)
        sweep == ArcSweep(angle, outwards)
    IN  IF cnt.ovf /\ bld = "checked" THEN ArcPanic
        ELSE IF ~Enumerable(cnt.val) THEN ArcHuge(cnt.val, cnt.ovf)
        ELSE LET n == U32ToNat(cnt.val)
             IN  ArcOk(vertices
                         \o <<start_vertex>>
                         \o [i \in 1..(n - 1) |->
                               ArcVertex(center, radius, start_angle, sweep, n, i)]
                         \o <<end_vertex>>,
                       cnt.ovf)

(* --------------------------- Point offset ----------------------------- *)

\* circle_frag(frags): 2 pi / frags
CircleFrag(frags) == [num |-> Pi2, den |-> frags]

\* A vertice_count without the bump to the next odd number.
VerticeCountEven(arc_segments) == U32Mul2(arc_segments)

\* vertice_count: arc_segments * 2, plus one when that is even.
VerticeCount(arc_segments) ==
    LET count == U32Mul2(arc_segments)
    IN  IF U32IsEven(count.val)
        THEN LET inc == U32Add1(count.val)
             IN  [val |-> inc.val, ovf |-> count.ovf \/ inc.ovf]
        ELSE count

\* The contour: the k-th vertex is reached after k additions of circle_frag.
PointContour(p, radius, n) ==
    [k \in 1..n |->
        Polar(p.x, p.y, radius, k * CircleFrag(n).num, CircleFrag(n).den)]

\* A Point offset that forgets the sign of the distance: it lacks the early
\* return and draws the circle of radius |distance|.
PointOffsetUnsigned(p, distance, arc_segments, bld) ==
    LET vc == VerticeCount(arc_segments)
    IN  IF vc.ovf /\ bld = "checked" THEN Panic
        ELSE IF ~Enumerable(vc.val) THEN Huge(vc.val, vc.ovf)
        ELSE [Ok(<<PolygonNew(PointContour(p, distance.mag, U32ToNat(vc.val)),
                              <<>>)>>)
                EXCEPT !.wrapped = vc.ovf]

\* impl Offset for Point
PointOffset(p, distance, arc_segments, bld) ==
    IF IsNegative(distance) THEN Ok(<<>>)
    ELSE LET vc == VerticeCount(arc_segments)
         IN  IF vc.ovf /\ bld = "checked" THEN Panic
             ELSE IF ~Enumerable(vc.val) THEN Huge(vc.val, vc.ovf)
             ELSE [Ok(<<PolygonNew(PointContour(p, distance.mag, U32ToNat(vc.val)),
                                   <<>>)>>)
                     EXCEPT !.wrapped = vc.ovf]

(* ---------------------------- Line offset ----------------------------- *)

\* One turn of `for i in 0..len`: the arc around v1 (i = 0) or v2 (i = 1),
\* from the previous offset edge's end to the current one's start.
LineArc(acc, i, v1, v2, offsets, radius, arc_segments, bld) ==
    LET len == 2
        current_edge == offsets[i + 1]
        prev_edge == offsets[((i + len + 1) % len) + 1]
    IN  IF acc.status # "Ok" THEN acc
        ELSE LET arc == CreateArc(acc.vertices, IF i = 0 THEN v1 ELSE v2, radius,
                                  prev_edge.next, current_edge.current,
                                  arc_segments, TRUE, bld)
             IN  [arc EXCEPT !.wrapped = arc.wrapped \/ acc.wrapped]

\* A fallback that calls Offset::offset, dropping the caller's arc_segments
\* for the default of 5.
LineFallbackDefaultArcs(start, distance, arc_segments, bld) ==
    PointOffset(start, distance, U32(5), bld)

\* A Line offset without recovery: the edge error is returned.
LineFallbackErr(start, distance, arc_segments, bld) == Err

\* The else branch: Point::from(self.start).offset_with_arc_segments(..)
LineFallback(start, distance, arc_segments, bld) ==
    PointOffset(start, distance, arc_segments, bld)

\* impl Offset for Line
LineOffset(start, end, distance, arc_segments, bld) ==
    IF IsNegative(distance) THEN Ok(<<>>)
    ELSE LET e1 == EdgeNew(start, end)
             in_normal == InwardsNormal(e1)
             out_normal == OutwardsNormal(e1)
         IN  IF in_normal.ok /\ out_normal.ok
             THEN LET offsets ==
                          <<WithOffset(e1, in_normal.x * distance.mag,
                                       in_normal.y * distance.mag),
                            InverseWithOffset(e1, out_normal.x * distance.mag,
                                              out_normal.y * distance.mag)>>
                      arc0 == LineArc(ArcOk(<<>>, FALSE), 0, start, end, offsets,
                                      distance.mag, arc_segments, bld)
                      arcs == LineArc(arc0, 1, start, end, offsets,
                                      distance.mag, arc_segments, bld)
                  IN  CASE arcs.status = "Ok" ->
                             [Ok(<<PolygonNew(arcs.vertices, <<>>)>>)
                                EXCEPT !.wrapped = arcs.wrapped]
                        [] arcs.status = "Panic" -> Panic
                        [] arcs.status = "Huge" -> Huge(arcs.count, arcs.wrapped)
             ELSE LineFallback(start, distance, arc_segments, bld)

(* -------------------------- boolean engine ---------------------------- *)
(* geo_booleanop is outside the repository.  It is modelled on areas: the  *)
(* plane is sampled by the unit cells <<i, j>> = [i, i+1] x [j, j+1] of a  *)
(* window, a polygon covers the cells whose centre lies in it, and union   *)
(* and difference return one polygon per edge-connected piece, ordered by  *)
(* the least cell.                                                         *)

\* Largest coordinate of the listed shapes.
Extent == 4

WinLo == -(MaxDist + 1)

WinHi == Extent + MaxDist

Window == (WinLo..WinHi) \X (WinLo..WinHi)

WinSize == WinHi - WinLo + 1

\* The cells of the window, listed.
WinSeq ==
    <<>> \o [k \in 1..(WinSize * WinSize) |->
               <<WinLo + ((k - 1) \div WinSize), WinLo + ((k - 1) % WinSize)>>]

\* The same set of cells, in enumerated form: the identity, which keeps the
\* model checker from evaluating a nested set expression again and again.
Enumerated(S) ==
    LET inside == SelectSeq(WinSeq, LAMBDA c : c \in S)
    IN  {inside[k] : k \in 1..Len(inside)}

\* Whether the ray from the centre of cell c towards +x crosses the edge
\* from v to w (lattice coordinates): even-odd filling.
Crosses(c, v, w) ==
    LET dy == w.y - v.y
        dx == w.x - v.x
        lo == IF v.y < w.y THEN v.y ELSE w.y
        hi == IF v.y < w.y THEN w.y ELSE v.y
    IN  /\ dy # 0
        /\ lo <= c[2] /\ c[2] < hi
        /\ (2 * v.x * dy + (2 * c[2] + 1 - 2 * v.y) * dx) * Sgn(dy)
              > (2 * c[1] + 1) * AbsInt(dy)

\* The cells inside a ring of lattice vertices.
LatticeFill(ring) ==
    {c \in Window :
        Cardinality({k \in 1..(Len(ring) - 1) : Crosses(c, ring[k], ring[k + 1])}) % 2 = 1}

\* Whether the centre of cell c is within r of the segment from a to b
\* (coordinates doubled, to keep integers).
Near(c, a, b, r) ==
    LET px == 2 * c[1] + 1 - 2 * a[1]
        py == 2 * c[2] + 1 - 2 * a[2]
        bx == 2 * (b[1] - a[1])
        by == 2 * (b[2] - a[2])
        t == px * bx + py * by
        l2 == bx * bx + by * by
        cr == px * by - py * bx
    IN  IF t <= 0 THEN px * px + py * py <= 4 * r * r
        ELSE IF t >= l2 THEN (px - bx) * (px - bx) + (py - by) * (py - by) <= 4 * r * r
        ELSE cr * cr <= 4 * r * r * l2

\* The cells inside a ring with generated (round) vertices: the ring of a
\* Point or Line offset approximates the set of points within the radius of
\* the point or segment its arcs are centred on, and is read as that set.
RoundFill(ring) ==
    LET gen == {k \in 1..Len(ring) : ~IsLattice(ring[k])}
        centres == {<<ring[k].x, ring[k].y>> : k \in gen}
        r == ring[CHOOSE k \in gen : TRUE].r
    IN  {c \in Window : \E a \in centres, b \in centres : Near(c, a, b, r)}

RingFill(ring) ==
    IF \A k \in 1..Len(ring) : IsLattice(ring[k]) THEN LatticeFill(ring)
    ELSE RoundFill(ring)

\* The cells a polygon covers: its exterior less its interior rings.
PolygonCells(p) ==
    IF p.kind = "region" THEN p.cells
    ELSE RingFill(p.exterior)
           \ UNION {RingFill(p.interiors[k]) : k \in 1..Len(p.interiors)}

\* The cells a MultiPolygon covers.
Cells(mp) == UNION {PolygonCells(mp[k]) : k \in 1..Len(mp)}

Adjacent(c, d) == AbsInt(c[1] - d[1]) + AbsInt(c[2] - d[2]) = 1

CellLeq(c, d) == c[1] < d[1] \/ (c[1] = d[1] /\ c[2] <= d[2])

LeastCell(S) == CHOOSE c \in S : \A d \in S : CellLeq(c, d)

RECURSIVE Grow(_, _)
Grow(S, comp) ==
    LET next == comp \cup {c \in S : \E d \in comp : Adjacent(c, d)}
    IN  IF next = comp THEN comp ELSE Grow(S, next)

\* The polygon list of an area: its connected pieces, least cell first.
RECURSIVE Pieces(_)
Pieces(S) ==
    IF S = {} THEN <<>>
    ELSE LET comp == Grow(S, {LeastCell(S)})
         IN  <<RegionPolygon(comp)>> \o Pieces(Enumerated(S \ comp))

\* BooleanOp::union
Union(a, b) == Pieces(Enumerated(Cells(a) \cup Cells(b)))

\* BooleanOp::difference
Difference(a, b) == Pieces(Enumerated(Cells(a) \ Cells(b)))

(* ------------------------- compound offsets --------------------------- *)

RECURSIVE GeometryOffset(_, _, _, _)
RECURSIVE OffsetFold(_, _, _, _, _)

\* The `?` of Rust: a failed result is returned at once, a successful one
\* hands its polygons to the rest of the function.
Try(r, rest(_)) == IF r.status # "Ok" THEN r ELSE rest(r.polys)

\* A fold that keeps the last member's offset in the place of the union.
RECURSIVE OffsetFoldLast(_, _, _, _, _)
OffsetFoldLast(members, acc, distance, arc_segments, bld) ==
    IF members = <<>> THEN Ok(acc)
    ELSE Try(GeometryOffset(Head(members), distance, arc_segments, bld),
             LAMBDA polys : OffsetFoldLast(Tail(members), polys,
                                           distance, arc_segments, bld))

\* let mut acc = MultiPolygon(Vec::new());
\* for member in .. { acc = acc.union(&member.offset_with_arc_segments(..)?) }
\* Ok(acc)
OffsetFold(members, acc, distance, arc_segments, bld) ==
    IF members = <<>> THEN Ok(acc)
    ELSE Try(GeometryOffset(Head(members), distance, arc_segments, bld),
             LAMBDA polys : OffsetFold(Tail(members), Union(acc, polys),
                                       distance, arc_segments, bld))

\* LineString::lines(): the segments between consecutive coordinates.
Lines(pts) ==
    [k \in 1..(IF Len(pts) = 0 THEN 0 ELSE Len(pts) - 1) |->
        Geom("Line", <<pts[k], pts[k + 1]>>, <<>>)]

\* The first polygon of the list, less each of the others in turn.
RECURSIVE SubtractAll(_, _)
SubtractAll(acc, holes) ==
    IF holes = <<>> THEN acc
    ELSE SubtractAll(Difference(acc, <<Head(holes)>>), Tail(holes))

\* The fold without skip(1): the first polygon is subtracted from itself.
FirstMinusAll(mp) ==
    IF mp = <<>> THEN <<>> ELSE SubtractAll(<<Head(mp)>>, mp)

FirstMinusRest(mp) ==
    IF mp = <<>> THEN <<>> ELSE SubtractAll(<<Head(mp)>>, Tail(mp))

\* impl Offset for LineString
LineStringOffset(pts, distance, arc_segments, bld) ==
    IF IsNegative(distance) THEN Ok(<<>>)
    ELSE Try(OffsetFold(Lines(pts), <<>>, distance, arc_segments, bld),
             LAMBDA polys : Ok(FirstMinusRest(polys)))

\* impl Offset for MultiLineString
MultiLineStringOffset(line_strings, distance, arc_segments, bld) ==
    IF IsNegative(distance) THEN Ok(<<>>)
    ELSE OffsetFold(line_strings, <<>>, distance, arc_segments, bld)

\* impl Offset for MultiPoint
MultiPointOffset(pts, distance, arc_segments, bld) ==
    IF IsNegative(distance) THEN Ok(<<>>)
    ELSE OffsetFold([k \in 1..Len(pts) |-> Geom("Point", <<pts[k]>>, <<>>)],
                    <<>>, distance, arc_segments, bld)

\* The geo_types polygon of a Polygon geometry.
AsPolygon(g) ==
    RingPolygon(g.parts[1].pts,
                [k \in 1..(Len(g.parts) - 1) |-> g.parts[k + 1].pts])

\* impl Offset for Polygon
PolygonOffset(g, distance, arc_segments, bld) ==
    Try(LineStringOffset(g.parts[1].pts, Abs(distance), arc_segments, bld),
        LAMBDA exterior_with_offset :
          Try(MultiLineStringOffset(Tail(g.parts), Abs(distance), arc_segments, bld),
              LAMBDA interiors_with_offset :
                Ok(IF IsSignPositive(distance)
                   THEN Union(Union(<<AsPolygon(g)>>, exterior_with_offset),
                              interiors_with_offset)
                   ELSE Difference(Difference(<<AsPolygon(g)>>, exterior_with_offset),
                                   interiors_with_offset))))

\* impl Offset for MultiPolygon
MultiPolygonOffset(polygons, distance, arc_segments, bld) ==
    OffsetFold(polygons, <<>>, distance, arc_segments, bld)

\* impl Offset for GeometryCollection
GeometryCollectionOffset(geometries, distance, arc_segments, bld) ==
    OffsetFold(geometries, <<>>, distance, arc_segments, bld)

\* Rect::to_polygon
RectToPolygon(g) ==
    LET lo == g.pts[1]
        hi == g.pts[2]
    IN  Geom("Polygon", <<>>,
             <<Geom("LineString",
                    <<Coord(lo.x, lo.y), Coord(lo.x, hi.y), Coord(hi.x, hi.y),
                      Coord(hi.x, lo.y), Coord(lo.x, lo.y)>>, <<>>)>>)

\* impl Offset for Geometry: the match on the variant.
\* A Triangle is offset as its polygon, like a Rect; its sides are not all
\* axis-parallel, so none is among the shapes listed below.
GeometryOffset(g, distance, arc_segments, bld) ==
    CASE g.kind = "Point" -> PointOffset(g.pts[1], distance, arc_segments, bld)
      [] g.kind = "Line" ->
             LineOffset(g.pts[1], g.pts[2], distance, arc_segments, bld)
      [] g.kind = "LineString" ->
             LineStringOffset(g.pts, distance, arc_segments, bld)
      [] g.kind = "Rect" ->
             PolygonOffset(RectToPolygon(g), distance, arc_segments, bld)
      [] g.kind = "Polygon" -> PolygonOffset(g, distance, arc_segments, bld)
      [] g.kind = "MultiPoint" ->
             MultiPointOffset(g.pts, distance, arc_segments, bld)
      [] g.kind = "MultiLineString" ->
             MultiLineStringOffset(g.parts, distance, arc_segments, bld)
      [] g.kind = "MultiPolygon" ->
             MultiPolygonOffset(g.parts, distance, arc_segments, bld)
      [] g.kind = "GeometryCollection" ->
             GeometryCollectionOffset(g.parts, distance, arc_segments, bld)

\* Arcs around corners are made of 5 segments by default.
DEFAULT_ARC_SEGMENTS == 5

\* Offset::offset
Offset(g, distance, bld) ==
    GeometryOffset(g, distance, U32(DEFAULT_ARC_SEGMENTS), bld)

(* ------------------------------ inputs -------------------------------- *)

Builds == {"checked", "wrapping"}

Dists == {Dist(neg, mag) : neg \in BOOLEAN, mag \in 0..MaxDist}

SmallArcs == {U32(n) : n \in 0..MaxArc}

PositiveArcs == {U32(n) : n \in 1..MaxArc}

\* The ends of the u32 range and the two sides of 2^31.
EdgeArcs == {U32HalfMinus1, U32Half, U32Max}

Lattice == {Coord(x, y) : x \in 0..MaxCoord, y \in 0..MaxCoord}

\* The eight directions whose angle is a multiple of an eighth of a turn.
Directions == {d \in (-1..1) \X (-1..1) : d # <<0, 0>>}

Pt(x, y) == Geom("Point", <<Coord(x, y)>>, <<>>)

Ln(a, b) == Geom("Line", <<a, b>>, <<>>)

Ls(pts) == Geom("LineString", pts, <<>>)

Poly(rings) == Geom("Polygon", <<>>, [k \in 1..Len(rings) |-> Ls(rings[k])])

\* The ring of the axis-parallel square from (lo, lo) to (hi, hi).
Square(lo, hi) ==
    <<Coord(lo, lo), Coord(hi, lo), Coord(hi, hi), Coord(lo, hi), Coord(lo, lo)>>

Points == {Geom("Point", <<p>>, <<>>) : p \in Lattice}

\* Axis-parallel segments, and the degenerate ones (start = end).
Segments ==
    {Ln(s[1], s[2]) :
        s \in {t \in Lattice \X Lattice : t[1].x = t[2].x \/ t[1].y = t[2].y}}

LineStrings ==
    { Ls(<<>>),
      Ls(<<Coord(1, 1)>>),
      Ls(<<Coord(0, 0), Coord(2, 0)>>),
      Ls(<<Coord(0, 0), Coord(2, 0), Coord(2, 2)>>),
      Ls(<<Coord(0, 0), Coord(0, 0), Coord(2, 0)>>),
      Ls(<<Coord(1, 1), Coord(1, 1)>>),
      Ls(<<Coord(0, 0), Coord(0, 3), Coord(3, 3), Coord(3, 3)>>),
      Ls(Square(0, 4)) }

Polygons ==
    { Poly(<<Square(0, 4)>>),
      Poly(<<Square(0, 4), Square(1, 3)>>),
      Poly(<<Square(1, 3)>>),
      Poly(<<<<Coord(0, 0), Coord(2, 0), Coord(2, 0), Coord(2, 2),
               Coord(0, 2), Coord(0, 0)>>>>) }

MultiPoints ==
    { Geom("MultiPoint", <<>>, <<>>),
      Geom("MultiPoint", <<Coord(1, 1)>>, <<>>),
      Geom("MultiPoint", <<Coord(0, 0), Coord(1, 0)>>, <<>>),
      Geom("MultiPoint", <<Coord(0, 0), Coord(2, 2), Coord(4, 0)>>, <<>>) }

MultiLineStrings ==
    { Geom("MultiLineString", <<>>, <<>>),
      Geom("MultiLineString", <<>>,
           <<Ls(<<Coord(0, 0), Coord(2, 0)>>), Ls(<<Coord(0, 3), Coord(0, 4)>>)>>),
      Geom("MultiLineString", <<>>,
           <<Ls(<<Coord(0, 0), Coord(0, 0)>>), Ls(<<Coord(3, 3), Coord(4, 3)>>),
             Ls(<<Coord(0, 0), Coord(1, 0), Coord(1, 1)>>)>>) }

MultiPolygons ==
    { Geom("MultiPolygon", <<>>, <<>>),
      Geom("MultiPolygon", <<>>, <<Poly(<<Square(0, 1)>>), Poly(<<Square(3, 4)>>)>>),
      Geom("MultiPolygon", <<>>,
           <<Poly(<<Square(0, 4), Square(1, 3)>>), Poly(<<Square(1, 3)>>),
             Poly(<<Square(0, 1)>>)>>) }

GeometryCollections ==
    { Geom("GeometryCollection", <<>>, <<>>),
      Geom("GeometryCollection", <<>>,
           <<Pt(0, 0), Ln(Coord(2, 2), Coord(4, 2)), Poly(<<Square(1, 3)>>)>>),
      Geom("GeometryCollection", <<>>,
           <<Ls(<<Coord(0, 0), Coord(0, 0), Coord(2, 0)>>),
             Geom("Rect", <<Coord(2, 2), Coord(4, 4)>>, <<>>)>>),
      Geom("GeometryCollection", <<>>,
           <<Geom("GeometryCollection", <<>>, <<Pt(4, 4), Pt(0, 4)>>),
             Geom("MultiPoint", <<Coord(0, 0), Coord(1, 0)>>, <<>>),
             Ln(Coord(1, 1), Coord(1, 1))>>) }

\* One or two shapes of every variant, for the calls through Geometry and
\* through Offset::offset.
Geometries ==
    { Pt(1, 1),
      Ln(Coord(0, 0), Coord(2, 0)),
      Ln(Coord(1, 1), Coord(1, 1)),
      Ls(<<Coord(0, 0), Coord(2, 0), Coord(2, 2)>>),
      Geom("Rect", <<Coord(0, 0), Coord(4, 4)>>, <<>>),
      Poly(<<Square(0, 4), Square(1, 3)>>),
      Geom("MultiPoint", <<Coord(0, 0), Coord(2, 2)>>, <<>>),
      Geom("MultiLineString", <<>>, <<Ls(<<Coord(0, 0), Coord(2, 0)>>)>>),
      Geom("MultiPolygon", <<>>, <<Poly(<<Square(0, 1)>>), Poly(<<Square(3, 4)>>)>>),
      Geom("GeometryCollection", <<>>, <<Pt(0, 0), Ln(Coord(2, 2), Coord(4, 2))>>) }

\* A call of an offset operation.
OffsetCall(op, shape, distance, arc_segments) ==
    [op |-> op, shape |-> shape, distance |-> distance,
     arc_segments |-> arc_segments,
     start_vertex |-> Coord(0, 0), end_vertex |-> Coord(0, 0),
     outwards |-> FALSE, vertices |-> <<>>]

\* A call of create_arc: the center is the shape, the radius the distance.
ArcCall(center, radius, start_vertex, end_vertex, segment_count, outwards, before) ==
    [op |-> "create_arc", shape |-> center, distance |-> radius,
     arc_segments |-> segment_count,
     start_vertex |-> start_vertex, end_vertex |-> end_vertex,
     outwards |-> outwards, vertices |-> before]

OffsetCalls(op, shapes, arcs) ==
    {OffsetCall(op, g, d, a) : g \in shapes, d \in Dists, a \in arcs}

ArcCalls ==
    {ArcCall(Pt(1, 1), Dist(FALSE, r), Coord(1 + s[1], 1 + s[2]),
             Coord(1 + e[1], 1 + e[2]), n, o, before) :
        r \in 0..MaxDist, s \in Directions \cup {<<0, 0>>}, e \in Directions,
        n \in SmallArcs \cup {U32Half}, o \in BOOLEAN,
        before \in {<<>>, <<Coord(0, 0), Coord(2, 1)>>}}

Calls ==
    OffsetCalls("Point", Points, SmallArcs \cup EdgeArcs)
      \cup OffsetCalls("Line", Segments, SmallArcs \cup EdgeArcs)
      \cup OffsetCalls("LineString", LineStrings, PositiveArcs)
      \cup OffsetCalls("MultiLineString", MultiLineStrings, PositiveArcs)
      \cup OffsetCalls("MultiPoint", MultiPoints, PositiveArcs)
      \cup OffsetCalls("Polygon", Polygons, PositiveArcs)
      \cup OffsetCalls("MultiPolygon", MultiPolygons, PositiveArcs)
      \cup OffsetCalls("GeometryCollection", GeometryCollections, PositiveArcs)
      \cup OffsetCalls("Geometry", Geometries, PositiveArcs)
      \cup OffsetCalls("offset", Geometries, {U32(DEFAULT_ARC_SEGMENTS)})
      \cup ArcCalls

(* --------------------------- specification ---------------------------- *)

Init ==
    /\ call \in Calls
    /\ build \in Builds
    /\ arc_vertices = call.vertices
    /\ result = None

Pending(op) == call.op = op /\ result = None

CallCreateArc ==
    /\ Pending("create_arc")
    /\ LET arc == CreateArc(arc_vertices, call.shape.pts[1], call.distance.mag,
                            call.start_vertex, call.end_vertex,
                            call.arc_segments, call.outwards, build)
       IN  /\ arc_vertices' = IF arc.status = "Ok" THEN arc.vertices ELSE arc_vertices
           /\ result' = [status |-> arc.status, polys |-> <<>>,
                         wrapped |-> arc.wrapped, count |-> arc.count]
    /\ UNCHANGED <<call, build>>

OffsetPoint ==
    /\ Pending("Point")
    /\ result' = PointOffset(call.shape.pts[1], call.distance, call.arc_segments, build)
    /\ UNCHANGED <<call, build, arc_vertices>>

OffsetLine ==
    /\ Pending("Line")
    /\ result' = LineOffset(call.shape.pts[1], call.shape.pts[2], call.distance,
                            call.arc_segments, build)
    /\ UNCHANGED <<call, build, arc_vertices>>

OffsetLineString ==
    /\ Pending("LineString")
    /\ result' = LineStringOffset(call.shape.pts, call.distance, call.arc_segments, build)
    /\ UNCHANGED <<call, build, arc_vertices>>

OffsetMultiLineString ==
    /\ Pending("MultiLineString")
    /\ result' = MultiLineStringOffset(call.shape.parts, call.distance,
                                       call.arc_segments, build)
    /\ UNCHANGED <<call, build, arc_vertices>>

OffsetMultiPoint ==
    /\ Pending("MultiPoint")
    /\ result' = MultiPointOffset(call.shape.pts, call.distance, call.arc_segments, build)
    /\ UNCHANGED <<call, build, arc_vertices>>

OffsetPolygon ==
    /\ Pending("Polygon")
    /\ result' = PolygonOffset(call.shape, call.distance, call.arc_segments, build)
    /\ UNCHANGED <<call, build, arc_vertices>>

OffsetMultiPolygon ==
    /\ Pending("MultiPolygon")
    /\ result' = MultiPolygonOffset(call.shape.parts, call.distance,
                                    call.arc_segments, build)
    /\ UNCHANGED <<call, build, arc_vertices>>

OffsetGeometryCollection ==
    /\ Pending("GeometryCollection")
    /\ result' = GeometryCollectionOffset(call.shape.parts, call.distance,
                                          call.arc_segments, build)
    /\ UNCHANGED <<call, build, arc_vertices>>

OffsetGeometry ==
    /\ Pending("Geometry")
    /\ result' = GeometryOffset(call.shape, call.distance, call.arc_segments, build)
    /\ UNCHANGED <<call, build, arc_vertices>>

OffsetDefault ==
    /\ Pending("offset")
    /\ result' = Offset(call.shape, call.distance, build)
    /\ UNCHANGED <<call, build, arc_vertices>>

Next ==
    \/ CallCreateArc
    \/ OffsetPoint
    \/ OffsetLine
    \/ OffsetLineString
    \/ OffsetMultiLineString
    \/ OffsetMultiPoint
    \/ OffsetPolygon
    \/ OffsetMultiPolygon
    \/ OffsetGeometryCollection
    \/ OffsetGeometry
    \/ OffsetDefault

Spec == Init /\ [][Next]_vars

Done == result # None

(* ------------------------------ claims -------------------------------- *)

OpenCurves == {"Point", "Line", "LineString", "MultiPoint", "MultiLineString"}

\* Whether two consecutive coordinates of a coordinate list coincide.
HasDegenerate(pts) == \E k \in 1..(Len(pts) - 1) : pts[k] = pts[k + 1]

\* Whether a geometry holds a zero-length segment, at any depth.
RECURSIVE ContainsDegenerate(_)
ContainsDegenerate(g) ==
    CASE g.kind = "Line" -> g.pts[1] = g.pts[2]
      [] g.kind = "LineString" -> HasDegenerate(g.pts)
      [] g.kind \in {"Point", "MultiPoint", "Rect"} -> FALSE
      [] OTHER -> \E k \in 1..Len(g.parts) : ContainsDegenerate(g.parts[k])

\* The shape a call offsets, when the call is an offset of a shape.
IsOffsetCall == call.op # "create_arc"

\* C1: an open curve (Point, Line, LineString, MultiPoint, MultiLineString),
\* offset by a negative distance, gives Ok with no polygon at all, whatever
\* arc_segments is and whether or not the shape has degenerate segments.
C1_NegativeDistanceIsEmpty ==
    (Done /\ IsOffsetCall /\ call.shape.kind \in OpenCurves
          /\ IsNegative(call.distance))
      => result = Ok(<<>>)

C1_Witness ==
    /\ Done /\ call.op = "LineString" /\ IsNegative(call.distance)
    /\ HasDegenerate(call.shape.pts)
    /\ result = Ok(<<>>)

\* C2: the offset of a degenerate Line (start = end) never returns the edge
\* error; it is the outcome of offsetting the Point at its start with the
\* same distance and arc_segments.
C2_DegenerateLineIsPoint ==
    (Done /\ call.op = "Line" /\ call.shape.pts[1] = call.shape.pts[2])
      => /\ result.status # "Err"
         /\ result = PointOffset(call.shape.pts[1], call.distance,
                                 call.arc_segments, build)

C2_Witness ==
    /\ Done /\ call.op = "Line" /\ call.shape.pts[1] = call.shape.pts[2]
    /\ call.distance = Dist(FALSE, 1) /\ call.arc_segments = U32(2)
    /\ result.status = "Ok" /\ Len(result.polys) = 1
    /\ Len(result.polys[1].exterior) = 6

\* The members of a LineString, each zero-length segment replaced by the
\* Point at its start.
PointsForDegenerate(lines) ==
    [k \in 1..Len(lines) |->
        IF lines[k].pts[1] = lines[k].pts[2]
        THEN Geom("Point", <<lines[k].pts[1]>>, <<>>) ELSE lines[k]]

Overflowed == result.status = "Panic" \/ result.wrapped

InRange(arc_segments) ==
    U32Leq(U32(1), arc_segments) /\ U32Leq(arc_segments, U32HalfMinus1)

\* The k-th generated vertex of a circle of n vertices around p.
CircleVertex(p, radius, k, n) ==
    IF radius = 0 THEN [x |-> p.x, y |-> p.y, r |-> 0, num |-> 0, den |-> 1]
    ELSE [x |-> p.x, y |-> p.y, r |-> radius, num |-> k * 8, den |-> n]

\* The polygon of a Point offset: one ring of n generated vertices, closed
\* by its first vertex when the last differs from it, and no interior ring.
IsCircle(polys, p, radius, n) ==
    /\ Len(polys) = 1
    /\ polys[1].kind = "ring" /\ polys[1].interiors = <<>>
    /\ LET ring == polys[1].exterior
       IN  /\ Len(ring) = IF radius = 0 THEN n ELSE n + 1
           /\ \A k \in 1..n : ring[k] = CircleVertex(p, radius, k, n)
           /\ ring[Len(ring)] = ring[1]
           /\ radius > 0 => \A j, k \in 1..n : j # k => ring[j] # ring[k]

\* C5 as claimed: for every arc_segments >= 1 and distance >= 0 the offset
\* of a Point is one polygon without interior rings, generated from
\* n = 2 * arc_segments + 1 vertices, the k-th at angle k * 2 pi / n.
C5_PointIsCircleForAllArcs ==
    (Done /\ call.op = "Point" /\ ~IsNegative(call.distance)
          /\ U32Leq(U32(1), call.arc_segments))
      => /\ ~Overflowed
         /\ result.status = "Huge"
               => result.count = U32Add1(U32Mul2(call.arc_segments).val).val
         /\ result.status = "Ok"
               => IsCircle(result.polys, call.shape.pts[1], call.distance.mag,
                           2 * U32ToNat(call.arc_segments) + 1)

\* C5, amended: the same for 1 <= arc_segments <= 2^31 - 1, the values
\* whose double fits the u32 range.
C5_PointIsCircle ==
    (Done /\ call.op = "Point" /\ ~IsNegative(call.distance)
          /\ InRange(call.arc_segments))
      => /\ ~Overflowed
         /\ result.status \in {"Ok", "Huge"}
         /\ result.status = "Huge"
               => /\ ~Enumerable(call.arc_segments)
                  /\ result.count = U32Add1(U32Mul2(call.arc_segments).val).val
                  /\ ~U32IsEven(result.count)
         /\ result.status = "Ok"
               => IsCircle(result.polys, call.shape.pts[1], call.distance.mag,
                           2 * U32ToNat(call.arc_segments) + 1)

C5_Witness ==
    /\ Done /\ call.op = "Point" /\ call.shape.pts[1] = Coord(1, 1)
    /\ call.distance = Dist(FALSE, 1) /\ call.arc_segments = U32(2)
    /\ result.status = "Ok"
    /\ Len(result.polys[1].exterior) = 6
    /\ result.polys[1].exterior[1] = [x |-> 1, y |-> 1, r |-> 1, num |-> 8, den |-> 5]

\* C10: the u32 arithmetic on arc_segments stays in range exactly when
\* 1 <= arc_segments <= 2^31 - 1: no call overflows in that range;
\* arc_segments = 0 overflows in the arc builder (0 - 1), which a
\* non-degenerate Line with distance >= 0 reaches; arc_segments >= 2^31
\* overflows in the Point offset (arc_segments * 2).
C10_ArcSegmentsRange ==
    Done =>
      /\ InRange(call.arc_segments) => ~Overflowed
      /\ (call.arc_segments = U32(0)
            /\ \/ call.op = "create_arc"
               \/ /\ call.op = "Line" /\ ~IsNegative(call.distance)
                  /\ call.shape.pts[1] # call.shape.pts[2])
           => Overflowed
      /\ (U32Leq(U32Half, call.arc_segments) /\ call.op = "Point"
            /\ ~IsNegative(call.distance))
           => Overflowed
      /\ Overflowed => (result.status = "Panic" <=> build = "checked")

C10_Witness ==
    /\ Done /\ call.op = "Point" /\ call.arc_segments = U32HalfMinus1
    /\ call.distance = Dist(FALSE, 1)
    /\ result.status = "Huge" /\ result.count = U32Max /\ ~result.wrapped

\* The angle of the direction (dx, dy) in eighths of a turn, counter-clockwise
\* from the positive x-axis, in 0..7; 0 for the null direction.
Bearing(dx, dy) ==
    CASE dx > 0 /\ dy = 0 -> 0
      [] dx > 0 /\ dy > 0 -> 1
      [] dx = 0 /\ dy > 0 -> 2
      [] dx < 0 /\ dy > 0 -> 3
      [] dx < 0 /\ dy = 0 -> 4
      [] dx < 0 /\ dy < 0 -> 5
      [] dx = 0 /\ dy < 0 -> 6
      [] dx > 0 /\ dy < 0 -> 7
      [] OTHER -> 0

\* The inputs and the outcome of the create_arc call of the state.
ArcCenter == call.shape.pts[1]

ArcRadius == call.distance.mag

ArcBefore == call.vertices

ArcStart == Bearing(call.start_vertex.x - ArcCenter.x, call.start_vertex.y - ArcCenter.y)

ArcEnd == Bearing(call.end_vertex.x - ArcCenter.x, call.end_vertex.y - ArcCenter.y)

\* The clockwise sweep from the start angle to the end angle, in 1..8: a
\* full turn when the two angles are equal.
ClockwiseSweep == IF (ArcStart - ArcEnd) % 8 = 0 THEN 8 ELSE (ArcStart - ArcEnd) % 8

\* n times the step claimed: minus the clockwise sweep outwards, the rest of
\* the turn inwards.
ClaimedSweep == IF call.outwards THEN -ClockwiseSweep ELSE 8 - ClockwiseSweep

\* segment_count, made odd by going down.
OddBelow(k) == IF k % 2 = 1 THEN k ELSE k - 1

ArcDone(n) ==
    /\ Done /\ call.op = "create_arc" /\ result.status = "Ok"
    /\ Enumerable(call.arc_segments)
    /\ U32ToNat(call.arc_segments) >= 1
    /\ n = OddBelow(U32ToNat(call.arc_segments))

\* The i-th appended vertex, the start vertex being the 0-th.
Appended(i) == arc_vertices[Len(ArcBefore) + 1 + i]

\* What create_arc appends: n + 1 vertices after the ones the list held,
\* the start vertex, n - 1 points at angle start + i * step, the end vertex.
AppendsArc(n) ==
    /\ Len(arc_vertices) = Len(ArcBefore) + n + 1
    /\ SubSeq(arc_vertices, 1, Len(ArcBefore)) = ArcBefore
    /\ Appended(0) = call.start_vertex
    /\ Appended(n) = call.end_vertex
    /\ \A i \in 1..(n - 1) :
          Appended(i) =
            IF ArcRadius = 0
            THEN [x |-> ArcCenter.x, y |-> ArcCenter.y, r |-> 0, num |-> 0, den |-> 1]
            ELSE [x |-> ArcCenter.x, y |-> ArcCenter.y, r |-> ArcRadius,
                  num |-> ArcStart * n + ClaimedSweep * i, den |-> n]

\* A segment_count beyond the vertex lists written out: the count of segments
\* kept is the odd number at or below it, and nothing overflows.
HugeArc ==
    (Done /\ call.op = "create_arc" /\ call.arc_segments = U32Half)
      => /\ result.status = "Huge" /\ ~result.wrapped
         /\ result.count = U32HalfMinus1

\* C7 as claimed: for segment_count >= 1 create_arc appends n + 1 vertices
\* (n the odd number at or below segment_count) and leaves the earlier ones
\* alone: the start vertex, then n - 1 points at angles start + i * step,
\* i = 1..n-1, taken at increasing angle, then the end vertex.
C7_ArcAtIncreasingAngle ==
    \A n \in 1..VertexCap :
       ArcDone(n) =>
         /\ AppendsArc(n)
         /\ ArcRadius > 0 =>
               \A i, j \in 1..(n - 1) :
                  i < j => Appended(i).num < Appended(j).num

\* C7, amended: the same, the n - 1 points taken in the order i = 1..n-1;
\* their angle decreases with i on an outward arc and does not decrease on
\* an inward one (it stays at the start angle when the step is zero).
C7_ArcAppended ==
    /\ HugeArc
    /\ \A n \in 1..VertexCap :
         ArcDone(n) =>
           /\ AppendsArc(n)
           /\ ArcRadius > 0 =>
                 \A i, j \in 1..(n - 1) :
                    i < j => IF call.outwards
                             THEN Appended(i).num > Appended(j).num
                             ELSE Appended(i).num <= Appended(j).num

C7_Witness ==
    /\ ArcDone(3) /\ call.outwards /\ ArcRadius = 1
    /\ ArcBefore = <<Coord(0, 0), Coord(2, 1)>>
    /\ Len(arc_vertices) = 6
    /\ Appended(1).num > Appended(2).num

\* n times the step create_arc took, read off its first interpolated point.
TakenSweep(n) == Appended(1).num - ArcStart * n

Offsets(kinds) == Done /\ IsOffsetCall /\ call.shape.kind \in kinds

\* The area of the result, and of a single polygon.
ResultArea == Enumerated(Cells(result.polys))

AreaOf(p) == Enumerated(Cells(<<p>>))

Members(g) ==
    IF g.kind = "MultiPoint"
    THEN [k \in 1..Len(g.pts) |-> Geom("Point", <<g.pts[k]>>, <<>>)]
    ELSE g.parts

Aggregates == {"MultiPoint", "MultiLineString", "MultiPolygon", "GeometryCollection"}

\* C6: the offset of a MultiPoint, MultiLineString, MultiPolygon or
\* GeometryCollection is the union of its members' offsets, each computed on
\* its own, folded from the empty MultiPolygon; it is the same for every
\* order of the members, and empty for an aggregate without members.
C6_AggregateIsUnion ==
    Offsets(Aggregates) =>
      LET members == Members(call.shape)
          n == Len(members)
          each == [k \in 1..n |->
                      GeometryOffset(members[k], call.distance, call.arc_segments, build)]
      IN  (\A k \in 1..n : each[k].status = "Ok") =>
            /\ result.status = "Ok"
            /\ ResultArea = UNION {Enumerated(Cells(each[k].polys)) : k \in 1..n}
            /\ n = 0 => result = Ok(<<>>)
            /\ \A order \in Permutations(1..n) :
                  result = GeometryOffset(
                               IF call.shape.kind = "MultiPoint"
                               THEN [call.shape EXCEPT
                                       !.pts = [k \in 1..n |-> call.shape.pts[order[k]]]]
                               ELSE [call.shape EXCEPT
                                       !.parts = [k \in 1..n |-> call.shape.parts[order[k]]]],
                               call.distance, call.arc_segments, build)

C6_Witness ==
    /\ Offsets({"MultiPoint"}) /\ call.op = "MultiPoint"
    /\ call.shape.pts = <<Coord(0, 0), Coord(2, 2), Coord(4, 0)>>
    /\ call.distance = Dist(FALSE, 1)
    /\ result.status = "Ok" /\ Len(result.polys) = 3
    /\ <<1, 1>> \in ResultArea /\ <<0, 1>> \notin ResultArea

====
